---- MODULE Spec2Model ----
(***************************************************************************)
(* cosmic-weather: the applet's model (src/app.rs), its configuration      *)
(* (src/config.rs) and the MET Norway client (src/weather.rs).             *)
(*                                                                         *)
(* Conventions.  Option<T> is a sequence of length at most one: None is    *)
(* <<>> and Some(x) is <<x>>.  A coordinate string is a sequence of        *)
(* one-character strings, so that str::parse::<f64> can be modelled by the *)
(* grammar it accepts.  An f64 is a decimal value mant * 10^exp (or inf /  *)
(* nan); temperatures and humidities of the provider payload are given in  *)
(* tenths.  A u64 is four 16-bit limbs, least significant first, so that   *)
(* the multiplication of src/app.rs:281 keeps its 64-bit width.            *)
(***************************************************************************)
EXTENDS Integers, Sequences, FiniteSets, TLC

(***************************************************************************)
(* Bounds of the model.                                                    *)
(***************************************************************************)
\* the largest number of fetch tasks that are pending at the same time
MaxInFlight == 2

\* the largest number of time-series entries in a response
MaxEntries == 2

None == <<>>
Some(x) == <<x>>
is_some(o) == o # <<>>

(***************************************************************************)
(* u64 arithmetic (update_interval, Duration::from_secs).                  *)
(***************************************************************************)
LimbBase == 65536

\* a small natural number as a u64
U64(n) == <<n % LimbBase, n \div LimbBase, 0, 0>>

\* a < b on u64 values
U64Less(a, b) ==
    \E i \in 1..4 : /\ a[i] < b[i]
                    /\ \A j \in (i+1)..4 : a[j] = b[j]

\* std::cmp::max on u64 values
U64Max(a, b) == IF U64Less(a, b) THEN b ELSE a

\* a * 60 in 64 bits: the wrapped product and whether it overflowed
U64Mul60(a) ==
    LET p1 == a[1] * 60
        p2 == a[2] * 60 + (p1 \div LimbBase)
        p3 == a[3] * 60 + (p2 \div LimbBase)
        p4 == a[4] * 60 + (p3 \div LimbBase)
    IN  [wrapped  |-> <<p1 % LimbBase, p2 % LimbBase, p3 % LimbBase, p4 % LimbBase>>,
         overflow |-> p4 \div LimbBase # 0]

\* a \div 60 on u64 values (whole minutes of a period in seconds)
U64Div60(a) ==
    LET n4 == a[4]
        n3 == (n4 % 60) * LimbBase + a[3]
        n2 == (n3 % 60) * LimbBase + a[2]
        n1 == (n2 % 60) * LimbBase + a[1]
    IN  <<n1 \div 60, n2 \div 60, n3 \div 60, n4 \div 60>>

(***************************************************************************)
(* str::parse::<f64>  (src/app.rs:106, src/app.rs:330).                    *)
(*   Float  ::= Sign? ( 'inf' | 'infinity' | 'nan' | Number )              *)
(*   Number ::= ( Digit+ | Digit+ '.' Digit* | Digit* '.' Digit+ ) Exp?    *)
(*   Exp    ::= 'e' Sign? Digit+                                           *)
(* with the words and the 'e' case-insensitive and no white space allowed. *)
(***************************************************************************)
Digits == {"0", "1", "2", "3", "4", "5", "6", "7", "8", "9"}

DigitVal(c) ==
    CASE c = "0" -> 0 [] c = "1" -> 1 [] c = "2" -> 2 [] c = "3" -> 3
      [] c = "4" -> 4 [] c = "5" -> 5 [] c = "6" -> 6 [] c = "7" -> 7
      [] c = "8" -> 8 [] c = "9" -> 9

ToLower(c) ==
    CASE c = "I" -> "i" [] c = "N" -> "n" [] c = "F" -> "f" [] c = "T" -> "t"
      [] c = "Y" -> "y" [] c = "A" -> "a" [] c = "E" -> "e" [] OTHER -> c

LowerStr(s) == [i \in 1..Len(s) |-> ToLower(s[i])]

\* the number of consecutive digits of s from position i on
RECURSIVE DigitRun(_, _)
DigitRun(s, i) ==
    IF i <= Len(s) /\ s[i] \in Digits THEN 1 + DigitRun(s, i + 1) ELSE 0

\* the value of a sequence of digits
RECURSIVE DigitsValue(_)
DigitsValue(ds) ==
    IF ds = <<>> THEN 0
    ELSE DigitsValue(SubSeq(ds, 1, Len(ds) - 1)) * 10 + DigitVal(ds[Len(ds)])

RECURSIVE Pow10(_)
Pow10(n) == IF n = 0 THEN 1 ELSE 10 * Pow10(n - 1)

\* one value per number: no trailing zeros in the mantissa
RECURSIVE Normal(_, _, _)
Normal(neg, mant, exp) ==
    IF mant = 0 THEN [kind |-> "num", neg |-> neg, mant |-> 0, exp |-> 0]
    ELSE IF mant % 10 = 0 THEN Normal(neg, mant \div 10, exp + 1)
    ELSE [kind |-> "num", neg |-> neg, mant |-> mant, exp |-> exp]

ParseErr == [ok |-> FALSE]
ParseOk(v) == [ok |-> TRUE, val |-> v]

parse_f64(s) ==
    LET signed == Len(s) > 0 /\ s[1] \in {"+", "-"}
        neg    == signed /\ s[1] = "-"
        body   == IF signed THEN SubSeq(s, 2, Len(s)) ELSE s
        low    == LowerStr(body)
        n      == Len(body)
        ilen   == DigitRun(body, 1)
        dot    == ilen < n /\ body[ilen + 1] = "."
        fstart == IF dot THEN ilen + 2 ELSE ilen + 1
        flen   == IF dot THEN DigitRun(body, fstart) ELSE 0
        estart == fstart + flen
        hasexp == estart <= n /\ low[estart] = "e"
        esign  == hasexp /\ estart + 1 <= n /\ body[estart + 1] \in {"+", "-"}
        eneg   == esign /\ body[estart + 1] = "-"
        dstart == IF esign THEN estart + 2 ELSE estart + 1
        elen   == IF hasexp THEN DigitRun(body, dstart) ELSE 0
        eabs   == DigitsValue(SubSeq(body, dstart, dstart + elen - 1))
        expo   == IF eneg THEN 0 - eabs ELSE eabs
        mant   == DigitsValue(SubSeq(body, 1, ilen) \o SubSeq(body, fstart, fstart + flen - 1))
        whole  == IF hasexp THEN elen >= 1 /\ dstart + elen = n + 1
                            ELSE estart = n + 1
    IN  IF low \in {<<"i", "n", "f">>, <<"i", "n", "f", "i", "n", "i", "t", "y">>}
          THEN ParseOk([kind |-> "inf", neg |-> neg])
        ELSE IF low = <<"n", "a", "n">>
          THEN ParseOk([kind |-> "nan"])
        ELSE IF ilen + flen >= 1 /\ whole
          THEN ParseOk(Normal(neg, mant, expo - flen))
        ELSE ParseErr

\* |v| <= n for a parsed value and a natural number n
AbsLeq(v, n) ==
    /\ v.kind = "num"
    /\ IF v.exp >= 0 THEN v.mant * Pow10(v.exp) <= n
                     ELSE v.mant <= n * Pow10(0 - v.exp)

\* the valid geographic ranges of spec section 3
InGeoRange(lat, lon) == AbsLeq(lat, 90) /\ AbsLeq(lon, 180)

(***************************************************************************)
(* The provider and its client  (src/weather.rs).                          *)
(* A response is what the transport gives back for one request:            *)
(*   [kind |-> "network"]                       send() failed              *)
(*   [kind |-> "http", status, decodes, timeseries]                        *)
(* where decodes says whether the body deserializes to MetWeatherResponse  *)
(* and timeseries is properties.timeseries, each entry carrying            *)
(* instant.details.air_temperature, instant.details.relative_humidity      *)
(* (Option, in tenths) and next_1_hours (Option of the symbol code).       *)
(***************************************************************************)
Ok(v) == [ok |-> TRUE, val |-> v]
Err(e) == [ok |-> FALSE, err |-> e]

map_weather_code_to_description(code) ==
    CASE code \in {"clearsky_day", "clearsky_night", "clearsky_polartwilight"} -> "Clear sky"
      [] code \in {"fair_day", "fair_night", "fair_polartwilight"} -> "Fair"
      [] code \in {"cloudy", "partlycloudy_day", "partlycloudy_night",
                   "partlycloudy_polartwilight"} -> "Cloudy"
      [] code = "fog" -> "Fog"
      [] code \in {"lightrain", "rainshowers_day", "rainshowers_night",
                   "rainshowers_polartwilight"} -> "Light rain"
      [] code \in {"rain", "heavyrain"} -> "Rain"
      [] code \in {"lightrainshowers_day", "lightrainshowers_night",
                   "lightrainshowers_polartwilight"} -> "Light rain showers"
      [] code = "lightsnow" -> "Light snow"
      [] code = "sleet" -> "Sleet"
      [] code = "lightsleet" -> "Light sleet"
      [] code = "thunderstorm" -> "Thunderstorm"
      [] code \in {"sleetshowers_day", "sleetshowers_night",
                   "sleetshowers_polartwilight"} -> "Sleet showers"
      [] code \in {"snowshowers_day", "snowshowers_night",
                   "snowshowers_polartwilight"} -> "Snow showers"
      [] code \in {"snow", "heavysnow"} -> "Snow"
      [] OTHER -> "Unknown"

\* map_weather_code_to_icon whose default is the cloudy icon
map_weather_code_to_icon_CloudyDefault(code) ==
    CASE code = "clearsky_day" -> "01d"
      [] code = "clearsky_night" -> "01n"
      [] code \in {"fair_day", "partlycloudy_day"} -> "02d"
      [] code \in {"fair_night", "partlycloudy_night"} -> "02n"
      [] code \in {"rain", "lightrain", "rainshowers_day", "rainshowers_night",
                   "rainshowers_polartwilight"} -> "10d"
      [] code \in {"snow", "heavysnow", "snowshowers_day", "snowshowers_night",
                   "snowshowers_polartwilight"} -> "13d"
      [] code = "fog" -> "50d"
      [] code = "thunderstorm" -> "11d"
      [] code \in {"sleet", "lightsleet"} -> "09d"
      [] OTHER -> "03d"

map_weather_code_to_icon(code) ==
    CASE code = "clearsky_day" -> "01d"
      [] code = "clearsky_night" -> "01n"
      [] code \in {"fair_day", "partlycloudy_day"} -> "02d"
      [] code \in {"fair_night", "partlycloudy_night"} -> "02n"
      [] code = "cloudy" -> "03d"
      [] code \in {"rain", "lightrain", "rainshowers_day", "rainshowers_night",
                   "rainshowers_polartwilight"} -> "10d"
      [] code \in {"snow", "heavysnow", "snowshowers_day", "snowshowers_night",
                   "snowshowers_polartwilight"} -> "13d"
      [] code = "fog" -> "50d"
      [] code = "thunderstorm" -> "11d"
      [] code \in {"sleet", "lightsleet"} -> "09d"
      [] OTHER -> "01d"

\* `x as u8` for an f64 given in tenths: truncation towards zero, saturating
F64AsU8(tenths) ==
    IF tenths < 0 THEN 0
    ELSE IF tenths \div 10 > 255 THEN 255
    ELSE tenths \div 10

\* StatusCode's Display, for the statuses of the model
StatusLine(status) ==
    CASE status = 200 -> "200 OK"
      [] status = 404 -> "404 Not Found"
      [] status = 429 -> "429 Too Many Requests"
      [] status = 503 -> "503 Service Unavailable"
      [] OTHER -> "<status>"

unwrap_or(o, d) == IF is_some(o) THEN o[1] ELSE d

\* get_weather_data that makes a snapshot of the defaults when the time
\* series is empty
get_weather_data_DefaultSnapshot(lat, lon, resp) ==
    IF resp.kind = "network" THEN Err("error sending request")
    ELSE IF resp.status >= 200 /\ resp.status <= 299 THEN
        IF ~resp.decodes THEN Err("error decoding response body")
        ELSE
            LET timeseries  == IF resp.timeseries # <<>> THEN resp.timeseries[1]
                               ELSE [air_temperature |-> None,
                                     relative_humidity |-> None,
                                     next_1_hours |-> None]
                temperature == unwrap_or(timeseries.air_temperature, 0)
                humidity    == F64AsU8(unwrap_or(timeseries.relative_humidity, 0))
                description == unwrap_or(timeseries.next_1_hours, "clear sky")
            IN  Ok([temperature |-> temperature,
                    feels_like  |-> temperature,
                    humidity    |-> humidity,
                    description |-> map_weather_code_to_description(description),
                    icon        |-> map_weather_code_to_icon(description),
                    location    |-> <<lat, lon>>])
    ELSE Err("API request failed with status: " \o StatusLine(resp.status))

\* get_weather_data that reads the last entry of the time series
get_weather_data_ReadsLast(lat, lon, resp) ==
    IF resp.kind = "network" THEN Err("error sending request")
    ELSE IF resp.status >= 200 /\ resp.status <= 299 THEN
        IF ~resp.decodes THEN Err("error decoding response body")
        ELSE IF resp.timeseries # <<>> THEN
            LET timeseries  == resp.timeseries[Len(resp.timeseries)]
                temperature == unwrap_or(timeseries.air_temperature, 0)
                humidity    == F64AsU8(unwrap_or(timeseries.relative_humidity, 0))
                description == unwrap_or(timeseries.next_1_hours, "clear sky")
            IN  Ok([temperature |-> temperature,
                    feels_like  |-> temperature,
                    humidity    |-> humidity,
                    description |-> map_weather_code_to_description(description),
                    icon        |-> map_weather_code_to_icon(description),
                    location    |-> <<lat, lon>>])
        ELSE Err("No weather data available")
    ELSE Err("API request failed with status: " \o StatusLine(resp.status))

\* the result of get_weather_data(lat, lon) when the transport gives resp
\* (WeatherData.timestamp, the wall clock, is left out)
get_weather_data(lat, lon, resp) ==
    IF resp.kind = "network" THEN Err("error sending request")
    ELSE IF resp.status >= 200 /\ resp.status <= 299 THEN
        IF ~resp.decodes THEN Err("error decoding response body")
        ELSE IF resp.timeseries # <<>> THEN
            LET timeseries  == resp.timeseries[1]
                temperature == unwrap_or(timeseries.air_temperature, 0)
                humidity    == F64AsU8(unwrap_or(timeseries.relative_humidity, 0))
                description == unwrap_or(timeseries.next_1_hours, "clear sky")
            IN  Ok([temperature |-> temperature,
                    feels_like  |-> temperature,
                    humidity    |-> humidity,
                    description |-> map_weather_code_to_description(description),
                    icon        |-> map_weather_code_to_icon(description),
                    location    |-> <<lat, lon>>])
        ELSE Err("No weather data available")
    ELSE Err("API request failed with status: " \o StatusLine(resp.status))

\* fetch_weather_data: the error is turned into its text
fetch_weather_data(lat, lon, resp) == get_weather_data(lat, lon, resp)

Entry(t, h, c) == [air_temperature |-> t, relative_humidity |-> h, next_1_hours |-> c]
HttpResponse(status, decodes, ts) ==
    [kind |-> "http", status |-> status, decodes |-> decodes, timeseries |-> ts]

\* the answers the provider gives in the model
Responses ==
    { HttpResponse(503, FALSE, <<>>),
      HttpResponse(200, TRUE, <<>>),
      HttpResponse(200, TRUE, <<Entry(Some(52), Some(800), Some("lightrain"))>>) }

(***************************************************************************)
(* Configuration  (src/config.rs).                                         *)
(***************************************************************************)
Str(s) ==
    CASE s = "59.91" -> <<"5", "9", ".", "9", "1">>
      [] s = "91"    -> <<"9", "1">>
      [] s = "10.75" -> <<"1", "0", ".", "7", "5">>
      [] s = "10,75" -> <<"1", "0", ",", "7", "5">>

\* what the user types into the latitude and longitude fields
LatInputs == {Str("59.91"), Str("91")}
LonInputs == {Str("10.75"), Str("10,75")}
CityInputs == {"Oslo"}
UnitsInputs == {"metric"}

\* ceil(2^64 / 60) minutes: the smallest interval whose seconds exceed 64 bits
HugeInterval == <<17477, 17476, 17476, 1092>>
IntervalInputs == {U64(15), HugeInterval}

MkConfig(lat, lon, city, units, auto, interval) ==
    [latitude |-> lat, longitude |-> lon, city |-> city, units |-> units,
     auto_update |-> auto, update_interval |-> interval]

\* #[derive(Default)] of Config
ConfigDefault == MkConfig(None, None, None, "", FALSE, U64(0))

\* Config::new
ConfigNew(lat, lon, city) == MkConfig(lat, lon, city, "metric", TRUE, U64(15))

\* the configurations found on disk at startup or sent by the config watcher
ConfigInputs ==
    { ConfigDefault,
      ConfigNew(Some(Str("59.91")), Some(Str("10.75")), Some("Oslo")),
      MkConfig(Some(Str("59.91")), Some(Str("10,75")), None, "metric", TRUE, U64(0)),
      MkConfig(Some(Str("91")), None, None, "", FALSE, HugeInterval) }

(***************************************************************************)
(* The application model  (src/app.rs).                                    *)
(***************************************************************************)
VARIABLES
    config,        \* AppModel.config
    popup,         \* AppModel.popup: Option<Id>
    weather_data,  \* AppModel.weather_data: Option<WeatherData>
    loading,       \* AppModel.loading
    error,         \* AppModel.error: Option<String>
    inflight,      \* the tasks made by Task::perform whose request can still
                   \* be answered: [lat, lon] records, in the order made
    hung,          \* the number of tasks whose request is never answered
    timer,         \* what subscription() returned after the last update
    last           \* the step taken last: init, the message update() handled
                   \* (with the result a WeatherFetched carried and the number
                   \* of older tasks its task left in flight), or a hang

vars == <<config, popup, weather_data, loading, error, inflight, hung, timer, last>>

\* window ids: Id::unique() never repeats, 2 stands for the id of a popup
\* that is gone
PopupId == 1
StaleId == 2

\* the requests that are out and have produced no message yet
InFlightCount == Len(inflight) + hung

Msg(kind) == [kind |-> kind, result |-> None, older |-> 0]
MsgFetched(result, older) ==
    [kind |-> "WeatherFetched", result |-> Some(result), older |-> older]

\* the tasks left when the i-th ends
Remove(s, i) == SubSeq(s, 1, i - 1) \o SubSeq(s, i + 1, Len(s))

\* Message::FetchWeather from the refresh button and from the timer
FetchKinds == {"FetchWeather:button", "FetchWeather:timer"}

\* Task::perform(fetch_weather_data(lat, lon), Message::WeatherFetched)
Task(lat, lon) == [lat |-> lat, lon |-> lon]

\* both coordinate strings are there and parse  (src/app.rs:105-106, 329-330)
CoordsParse(c) ==
    /\ is_some(c.latitude) /\ is_some(c.longitude)
    /\ parse_f64(c.latitude[1]).ok /\ parse_f64(c.longitude[1]).ok

Lat(c) == parse_f64(c.latitude[1]).val
Lon(c) == parse_f64(c.longitude[1]).val

TimerOff == [kind |-> "off"]
TimerEvery(secs) == [kind |-> "every", secs |-> secs]
\* `update_interval * 60` overflowed in a build with overflow checks
TimerPanic == [kind |-> "panic"]

\* subscription() without the test of the longitude
subscription_NoLongitude(c) ==
    IF c.auto_update /\ is_some(c.latitude) THEN
        LET update_interval == U64Max(c.update_interval, U64(5))
            secs == U64Mul60(update_interval)
        IN  IF secs.overflow THEN {TimerEvery(secs.wrapped), TimerPanic}
            ELSE {TimerEvery(secs.wrapped)}
    ELSE {TimerOff}

\* the outcomes of subscription(): the periodic FetchWeather subscription.
\* The product of line 281 wraps in a build without overflow checks and
\* panics in a build with them.
subscription(c) ==
    IF c.auto_update /\ is_some(c.latitude) /\ is_some(c.longitude) THEN
        LET update_interval == U64Max(c.update_interval, U64(5))
            secs == U64Mul60(update_interval)
        IN  IF secs.overflow THEN {TimerEvery(secs.wrapped), TimerPanic}
            ELSE {TimerEvery(secs.wrapped)}
    ELSE {TimerOff}

Running == timer.kind # "panic"

\* the runtime asks for the subscriptions again after every update
Resubscribe(msg) ==
    /\ timer' \in subscription(config')
    /\ last' = msg

\* view_window() that looks at the error before the snapshot
view_window_ErrorFirst ==
    IF is_some(error) THEN "error"
    ELSE IF is_some(weather_data) THEN "weather"
    ELSE IF loading THEN "loading"
    ELSE "none"

\* what the popup shows above the refresh button: the snapshot, "Loading
\* weather...", "Error: ..." or "No weather data available"
view_window ==
    IF is_some(weather_data) THEN "weather"
    ELSE IF loading THEN "loading"
    ELSE IF is_some(error) THEN "error"
    ELSE "none"

Init ==
    /\ config \in ConfigInputs
    /\ popup = None
    /\ weather_data = None
    /\ loading = FALSE
    /\ error = None
    /\ inflight = IF CoordsParse(config)
                    THEN <<Task(Lat(config), Lon(config))>>
                    ELSE <<>>
    /\ hung = 0
    /\ timer \in subscription(config)
    /\ last = Msg("Init")

SubscriptionChannel ==
    /\ Running
    /\ UNCHANGED <<config, popup, weather_data, loading, error, inflight, hung>>
    /\ Resubscribe(Msg("SubscriptionChannel"))

\* UpdateConfig that drops the snapshot made for the old configuration
UpdateConfig_ClearsSnapshot(c) ==
    /\ timer.kind # "panic"
    /\ config' = c
    /\ weather_data' = IF c = config THEN weather_data ELSE None
    /\ UNCHANGED <<popup, loading, error, inflight, hung>>
    /\ timer' \in subscription(config')
    /\ last' = Msg("UpdateConfig")

UpdateConfig(c) ==
    /\ Running
    /\ config' = c
    /\ UNCHANGED <<popup, weather_data, loading, error, inflight, hung>>
    /\ Resubscribe(Msg("UpdateConfig"))

TogglePopup ==
    /\ Running
    /\ popup' = IF is_some(popup) THEN None ELSE Some(PopupId)
    /\ UNCHANGED <<config, weather_data, loading, error, inflight, hung>>
    /\ Resubscribe(Msg("TogglePopup"))

PopupClosed(id) ==
    /\ Running
    /\ popup' = IF popup = Some(id) THEN None ELSE popup
    /\ UNCHANGED <<config, weather_data, loading, error, inflight, hung>>
    /\ Resubscribe(Msg("PopupClosed"))

\* FetchWeather that drops the snapshot when the fetch begins
FetchWeather_ClearsSnapshot(source) ==
    /\ timer.kind # "panic"
    /\ IF CoordsParse(config)
         THEN /\ InFlightCount < MaxInFlight
              /\ loading' = TRUE
              /\ error' = None
              /\ weather_data' = None
              /\ inflight' = Append(inflight, Task(Lat(config), Lon(config)))
         ELSE UNCHANGED <<loading, error, inflight, weather_data>>
    /\ UNCHANGED <<config, popup, hung>>
    /\ timer' \in subscription(config')
    /\ last' = Msg(source)

\* FetchWeather that reports coordinates it cannot parse as an error
FetchWeather_SurfacesError(source) ==
    /\ timer.kind # "panic"
    /\ IF CoordsParse(config)
         THEN /\ InFlightCount < MaxInFlight
              /\ loading' = TRUE
              /\ error' = None
              /\ inflight' = Append(inflight, Task(Lat(config), Lon(config)))
         ELSE /\ error' = Some("Invalid coordinates")
              /\ UNCHANGED <<loading, inflight>>
    /\ UNCHANGED <<config, popup, weather_data, hung>>
    /\ timer' \in subscription(config')
    /\ last' = Msg(source)

\* update(Message::FetchWeather); source says who sent the message
FetchWeather(source) ==
    /\ Running
    /\ IF CoordsParse(config)
         THEN /\ InFlightCount < MaxInFlight
              /\ loading' = TRUE
              /\ error' = None
              /\ inflight' = Append(inflight, Task(Lat(config), Lon(config)))
         ELSE UNCHANGED <<loading, error, inflight>>
    /\ UNCHANGED <<config, popup, weather_data, hung>>
    /\ Resubscribe(Msg(source))

\* the refresh button of the popup
ManualRefresh == FetchWeather("FetchWeather:button")

\* time::every(..).map(|_| Message::FetchWeather)
TimerTick ==
    /\ timer.kind = "every"
    /\ FetchWeather("FetchWeather:timer")

\* WeatherFetched that drops the snapshot when the fetch failed
WeatherFetched_DropsSnapshot(i, resp) ==
    /\ timer.kind # "panic"
    /\ i \in DOMAIN inflight
    /\ inflight' = Remove(inflight, i)
    /\ LET result == fetch_weather_data(inflight[i].lat, inflight[i].lon, resp)
       IN  /\ loading' = FALSE
           /\ IF result.ok
                THEN /\ weather_data' = Some(result.val)
                     /\ error' = None
                ELSE /\ error' = Some(result.err)
                     /\ weather_data' = None
           /\ last' = MsgFetched(result, i - 1)
    /\ UNCHANGED <<config, popup, hung>>
    /\ timer' \in subscription(config')

\* WeatherFetched that fetches again when the coordinates have changed
\* since the task was made
WeatherFetched_Refetches(i, resp) ==
    /\ timer.kind # "panic"
    /\ i \in DOMAIN inflight
    /\ UNCHANGED <<config, popup, hung>>
    /\ LET result == fetch_weather_data(inflight[i].lat, inflight[i].lon, resp)
           again  == /\ CoordsParse(config)
                     /\ Task(Lat(config), Lon(config)) # inflight[i]
       IN  /\ loading' = again
           /\ inflight' = IF again
                             THEN Append(Remove(inflight, i), Task(Lat(config), Lon(config)))
                             ELSE Remove(inflight, i)
           /\ IF result.ok
                THEN /\ weather_data' = Some(result.val)
                     /\ error' = None
                ELSE /\ error' = Some(result.err)
                     /\ UNCHANGED weather_data
           /\ last' = MsgFetched(result, i - 1)
    /\ timer' \in subscription(config')

\* WeatherFetched that makes the request again when it has failed
WeatherFetched_Retries(i, resp) ==
    /\ timer.kind # "panic"
    /\ i \in DOMAIN inflight
    /\ UNCHANGED <<config, popup, hung>>
    /\ LET result == fetch_weather_data(inflight[i].lat, inflight[i].lon, resp)
       IN  /\ IF result.ok
                THEN /\ weather_data' = Some(result.val)
                     /\ error' = None
                     /\ loading' = FALSE
                     /\ inflight' = Remove(inflight, i)
                ELSE /\ error' = Some(result.err)
                     /\ loading' = TRUE
                     /\ inflight' = Append(Remove(inflight, i), inflight[i])
                     /\ UNCHANGED weather_data
           /\ last' = MsgFetched(result, i - 1)
    /\ timer' \in subscription(config')

\* WeatherFetched that applies an outcome only when no task made later is
\* still in flight
WeatherFetched_NewestOnly(i, resp) ==
    /\ timer.kind # "panic"
    /\ i \in DOMAIN inflight
    /\ inflight' = Remove(inflight, i)
    /\ UNCHANGED <<config, popup, hung>>
    /\ LET result == fetch_weather_data(inflight[i].lat, inflight[i].lon, resp)
       IN  /\ IF i < Len(inflight)
                THEN UNCHANGED <<loading, weather_data, error>>
                ELSE /\ loading' = FALSE
                     /\ IF result.ok
                          THEN /\ weather_data' = Some(result.val)
                               /\ error' = None
                          ELSE /\ error' = Some(result.err)
                               /\ UNCHANGED weather_data
           /\ last' = MsgFetched(result, i - 1)
    /\ timer' \in subscription(config')

\* the provider answers the request of the i-th task in flight with resp,
\* the task ends and update(Message::WeatherFetched(result)) runs
WeatherFetched(i, resp) ==
    /\ Running
    /\ i \in DOMAIN inflight
    /\ inflight' = Remove(inflight, i)
    /\ UNCHANGED <<config, popup, hung>>
    /\ LET result == fetch_weather_data(inflight[i].lat, inflight[i].lon, resp)
       IN  /\ loading' = FALSE
           /\ IF result.ok
                THEN /\ weather_data' = Some(result.val)
                     /\ error' = None
                ELSE /\ error' = Some(result.err)
                     /\ UNCHANGED weather_data
           /\ Resubscribe(MsgFetched(result, i - 1))

\* the provider accepts the connection of the i-th task and never answers:
\* reqwest::Client::new() sets no timeout, so send().await never returns
RequestHangs(i) ==
    /\ Running
    /\ i \in DOMAIN inflight
    /\ inflight' = Remove(inflight, i)
    /\ hung' = hung + 1
    /\ UNCHANGED <<config, popup, weather_data, loading, error, timer>>
    /\ last' = Msg("RequestHangs")

\* UpdateCity that forgets the coordinates of the old city
UpdateCity_ClearsCoordinates(city) ==
    /\ timer.kind # "panic"
    /\ config' = [config EXCEPT !.city = Some(city), !.latitude = None,
                                !.longitude = None]
    /\ UNCHANGED <<popup, weather_data, loading, error, inflight, hung>>
    /\ timer' \in subscription(config')
    /\ last' = Msg("UpdateCity")

\* the edit handlers: change one field, then write_entry
UpdateCity(city) ==
    /\ Running
    /\ config' = [config EXCEPT !.city = Some(city)]
    /\ UNCHANGED <<popup, weather_data, loading, error, inflight, hung>>
    /\ Resubscribe(Msg("UpdateCity"))

UpdateApiKey ==
    /\ Running
    /\ UNCHANGED <<config, popup, weather_data, loading, error, inflight, hung>>
    /\ Resubscribe(Msg("UpdateApiKey"))

\* UpdateLatitude that fetches with the new coordinates
UpdateLatitude_Fetches(lat) ==
    /\ timer.kind # "panic"
    /\ config' = [config EXCEPT !.latitude = Some(lat)]
    /\ IF CoordsParse(config') /\ InFlightCount < MaxInFlight
         THEN /\ loading' = TRUE
              /\ error' = None
              /\ inflight' = Append(inflight, Task(Lat(config'), Lon(config')))
         ELSE UNCHANGED <<loading, error, inflight>>
    /\ UNCHANGED <<popup, weather_data, hung>>
    /\ timer' \in subscription(config')
    /\ last' = Msg("UpdateLatitude")

UpdateLatitude(lat) ==
    /\ Running
    /\ config' = [config EXCEPT !.latitude = Some(lat)]
    /\ UNCHANGED <<popup, weather_data, loading, error, inflight, hung>>
    /\ Resubscribe(Msg("UpdateLatitude"))

UpdateLongitude(lon) ==
    /\ Running
    /\ config' = [config EXCEPT !.longitude = Some(lon)]
    /\ UNCHANGED <<popup, weather_data, loading, error, inflight, hung>>
    /\ Resubscribe(Msg("UpdateLongitude"))

ToggleAutoUpdate(enabled) ==
    /\ Running
    /\ config' = [config EXCEPT !.auto_update = enabled]
    /\ UNCHANGED <<popup, weather_data, loading, error, inflight, hung>>
    /\ Resubscribe(Msg("ToggleAutoUpdate"))

UpdateUnits(units) ==
    /\ Running
    /\ config' = [config EXCEPT !.units = units]
    /\ UNCHANGED <<popup, weather_data, loading, error, inflight, hung>>
    /\ Resubscribe(Msg("UpdateUnits"))

UpdateInterval(interval) ==
    /\ Running
    /\ config' = [config EXCEPT !.update_interval = interval]
    /\ UNCHANGED <<popup, weather_data, loading, error, inflight, hung>>
    /\ Resubscribe(Msg("UpdateInterval"))

Next ==
    \/ SubscriptionChannel
    \/ \E c \in ConfigInputs : UpdateConfig(c)
    \/ TogglePopup
    \/ \E id \in {PopupId, StaleId} : PopupClosed(id)
    \/ ManualRefresh
    \/ TimerTick
    \/ \E i \in DOMAIN inflight, resp \in Responses : WeatherFetched(i, resp)
    \/ \E i \in DOMAIN inflight : RequestHangs(i)
    \/ \E city \in CityInputs : UpdateCity(city)
    \/ UpdateApiKey
    \/ \E lat \in LatInputs : UpdateLatitude(lat)
    \/ \E lon \in LonInputs : UpdateLongitude(lon)
    \/ \E enabled \in BOOLEAN : ToggleAutoUpdate(enabled)
    \/ \E units \in UnitsInputs : UpdateUnits(units)
    \/ \E interval \in IntervalInputs : UpdateInterval(interval)

Spec == Init /\ [][Next]_vars

\* the runtime runs a finished task's message through update(): a request
\* that has not hung is answered and its outcome is handled
FairSpec ==
    Spec /\ WF_vars(\E i \in DOMAIN inflight, resp \in Responses : WeatherFetched(i, resp))

(***************************************************************************)
(* The provider client on its own  (src/weather.rs): get_weather_data and  *)
(* the two lookup functions are called on inputs drawn from bounded sets.  *)
(* In this specification last holds the call and then its result:          *)
(*   [kind |-> "get_weather_data", lat, lon, resp, result]                 *)
(*   [kind |-> "map_weather_code", code, result]                           *)
(***************************************************************************)
\* the codes with an arm in map_weather_code_to_description
DescriptionCodes ==
    {"clearsky_day", "clearsky_night", "clearsky_polartwilight",
     "fair_day", "fair_night", "fair_polartwilight",
     "cloudy", "partlycloudy_day", "partlycloudy_night", "partlycloudy_polartwilight",
     "fog",
     "lightrain", "rainshowers_day", "rainshowers_night", "rainshowers_polartwilight",
     "rain", "heavyrain",
     "lightrainshowers_day", "lightrainshowers_night", "lightrainshowers_polartwilight",
     "lightsnow", "sleet", "lightsleet", "thunderstorm",
     "sleetshowers_day", "sleetshowers_night", "sleetshowers_polartwilight",
     "snowshowers_day", "snowshowers_night", "snowshowers_polartwilight",
     "snow", "heavysnow"}

\* the codes with an arm in map_weather_code_to_icon
IconCodes ==
    {"clearsky_day", "clearsky_night",
     "fair_day", "partlycloudy_day", "fair_night", "partlycloudy_night",
     "cloudy",
     "rain", "lightrain", "rainshowers_day", "rainshowers_night",
     "rainshowers_polartwilight",
     "snow", "heavysnow", "snowshowers_day", "snowshowers_night",
     "snowshowers_polartwilight",
     "fog", "thunderstorm", "sleet", "lightsleet"}

\* codes with no arm in either function: a code of the provider that the
\* tables leave out, a string that is no code of the provider, and the
\* string get_weather_data uses when next_1_hours is absent
OtherCodes == {"heavyrainandthunder", "xyz_unknown", "clear sky"}

Codes == DescriptionCodes \cup IconCodes \cup OtherCodes

\* air_temperature and relative_humidity of instant.details, in tenths
Temperatures == {None, Some(0), Some(52), Some(-125)}
Humidities ==
    {None, Some(-50), Some(0), Some(805), Some(1000), Some(1500), Some(3000)}

\* the first entry of a time series
FirstEntries ==
    {Entry(t, h, c) : t \in Temperatures, h \in Humidities,
                      c \in {None, Some("lightrain"), Some("xyz_unknown")}}
    \cup {Entry(Some(52), Some(800), Some(c)) : c \in Codes}

\* the entries after the first
LaterEntries == {Entry(Some(300), Some(100), Some("snow")), Entry(None, None, None)}

SeqsUpTo(S, n) == UNION {[1..k -> S] : k \in 0..n}

\* properties.timeseries: empty, or a first entry and up to MaxEntries - 1 more
TimeseriesInputs ==
    {<<>>} \cup {<<e>> \o rest : e \in FirstEntries,
                                rest \in SeqsUpTo(LaterEntries, MaxEntries - 1)}

StatusInputs == {200, 404, 429, 503}

\* what the transport can give back: send() fails, or a status with a body
\* that does not deserialize, or a status with a body that does
ResponseInputs ==
    {[kind |-> "network"]}
    \cup {HttpResponse(status, FALSE, <<>>) : status \in StatusInputs}
    \cup {HttpResponse(status, TRUE, ts) : status \in StatusInputs, ts \in TimeseriesInputs}

\* the coordinates get_weather_data is called with
CoordInputs ==
    {<<parse_f64(lat).val, parse_f64(Str("10.75")).val>> : lat \in LatInputs}

Call(lat, lon, resp) ==
    [kind |-> "get_weather_data", lat |-> lat, lon |-> lon, resp |-> resp,
     result |-> None]
Lookup(code) == [kind |-> "map_weather_code", code |-> code, result |-> None]

NormInit ==
    /\ config = ConfigDefault
    /\ popup = None
    /\ weather_data = None
    /\ loading = FALSE
    /\ error = None
    /\ inflight = <<>>
    /\ hung = 0
    /\ timer = TimerOff
    /\ last \in {Call(c[1], c[2], resp) : c \in CoordInputs, resp \in ResponseInputs}
                \cup {Lookup(code) : code \in Codes}

\* get_weather_data(lat, lon) returns
GetWeatherData ==
    /\ last.kind = "get_weather_data" /\ last.result = None
    /\ last' = [last EXCEPT !.result = Some(get_weather_data(last.lat, last.lon, last.resp))]
    /\ UNCHANGED <<config, popup, weather_data, loading, error, inflight, hung, timer>>

\* map_weather_code_to_description(code) and map_weather_code_to_icon(code)
\* return
MapWeatherCode ==
    /\ last.kind = "map_weather_code" /\ last.result = None
    /\ last' = [last EXCEPT !.result =
                    Some([description |-> map_weather_code_to_description(last.code),
                          icon |-> map_weather_code_to_icon(last.code)])]
    /\ UNCHANGED <<config, popup, weather_data, loading, error, inflight, hung, timer>>

NormNext == GetWeatherData \/ MapWeatherCode

NormSpec == NormInit /\ [][NormNext]_vars

(***************************************************************************)
(* Claims.                                                                 *)
(***************************************************************************)

\* C1: at most one fetch is in flight in every reachable state (a
\* FetchWeather that arrives during a fetch makes no second request).
C1_NoOverlap == InFlightCount <= 1

\* C2: loading is true exactly when a fetch is in flight.
C2_LoadingIffInFlight == loading <=> (InFlightCount > 0)

\* a step that makes a task: an outbound request begins
TaskMade == Len(inflight') > Len(inflight)

\* a FetchWeather with coordinates that parse: a fetch begins
BeginsFetch == last'.kind \in FetchKinds /\ CoordsParse(config)

\* C3 as stated: beginning a fetch sets loading and leaves the snapshot and
\* last_error as they were.
C3_BeginFetchKeepsError ==
    [][BeginsFetch =>
         /\ loading' = TRUE
         /\ weather_data' = weather_data
         /\ error' = error]_vars

\* C3 amended: beginning a fetch sets loading, leaves the snapshot as it
\* was and clears last_error.
C3_BeginFetchClearsError ==
    [][BeginsFetch =>
         /\ loading' = TRUE
         /\ weather_data' = weather_data
         /\ error' = None]_vars

\* a fetch has begun while a snapshot was there
C3_Witness ==
    /\ last.kind \in FetchKinds /\ CoordsParse(config)
    /\ loading /\ is_some(weather_data) /\ InFlightCount > 0

\* C4: applying an outcome clears loading; a success replaces the snapshot
\* by the outcome's and clears last_error; a failure sets last_error to the
\* reason and leaves the snapshot as it was.
C4_Complete ==
    [][last'.kind = "WeatherFetched" =>
         /\ loading' = FALSE
         /\ IF last'.result[1].ok
              THEN /\ weather_data' = Some(last'.result[1].val)
                   /\ error' = None
              ELSE /\ error' = Some(last'.result[1].err)
                   /\ weather_data' = weather_data]_vars

\* a failure has been applied and the earlier snapshot is still there
C4_Witness ==
    /\ last.kind = "WeatherFetched" /\ ~last.result[1].ok
    /\ is_some(weather_data) /\ is_some(error) /\ ~loading

\* C5: whenever a fetch has begun the scheduler is Idle again later, also
\* when the provider never answers.  (The process having panicked, or the
\* periodic trigger being subscribed, so that a later tick can still start
\* a fetch that is answered, counts as Idle to come: what refutes the claim
\* is a fetch after which nothing but the user can end Fetching.)
C5_EventuallyIdle ==
    (loading /\ Running) ~> (~loading \/ ~Running \/ timer.kind = "every")

\* a coordinate edit while no fetch is in flight, giving coordinates that parse
IdleCoordinateChange ==
    /\ last'.kind \in {"UpdateLatitude", "UpdateLongitude"}
    /\ config' # config
    /\ InFlightCount = 0
    /\ CoordsParse(config')

C7_BadCoordinatesSilent ==
    /\ []((last.kind = "Init" /\ ~CoordsParse(config)) =>
            /\ inflight = <<>> /\ loading = FALSE
            /\ error = None /\ weather_data = None)
    /\ [][(last'.kind \in FetchKinds /\ ~CoordsParse(config)) =>
            UNCHANGED <<inflight, hung, loading, error, weather_data>>]_vars

\* a FetchWeather has been handled with a coordinate string that is there
\* and does not parse
C7_Witness ==
    /\ last.kind \in FetchKinds
    /\ is_some(config.latitude) /\ is_some(config.longitude)
    /\ ~CoordsParse(config)

\* C8: a request is made only for coordinates within the geographic
\* ranges -90..90 and -180..180.
C8_OnlyInRange ==
    \A i \in DOMAIN inflight : InGeoRange(inflight[i].lat, inflight[i].lon)

\* the condition of the periodic subscription
TimerWanted ==
    config.auto_update /\ is_some(config.latitude) /\ is_some(config.longitude)

\* C9: the periodic trigger exists exactly when auto-update is on and both
\* coordinates are configured; a tick is handled only while it exists, and
\* without it the refresh button still starts a fetch.
C9_TimerOnlyWhenWanted ==
    /\ [](Running => ((timer.kind = "every") <=> TimerWanted))
    /\ [][/\ last'.kind = "FetchWeather:timer" => (timer.kind = "every" /\ TimerWanted)
          /\ (last'.kind = "FetchWeather:button" /\ ~TimerWanted /\ CoordsParse(config)) =>
                inflight' = Append(inflight, Task(Lat(config), Lon(config)))]_vars

\* the refresh button has started a fetch while there is no periodic trigger
C9_Witness ==
    /\ last.kind = "FetchWeather:button"
    /\ ~TimerWanted /\ timer.kind = "off"
    /\ InFlightCount > 0 /\ loading

\* C10: the period of the timer in minutes is max(update_interval, 5).
C10_PeriodIsMax ==
    TimerWanted =>
        /\ timer.kind = "every"
        /\ U64Mul60(U64Max(config.update_interval, U64(5))).overflow = FALSE
        /\ U64Div60(timer.secs) = U64Max(config.update_interval, U64(5))

\* C11: in every state with a snapshot the popup shows the snapshot, and
\* keeps showing it after every step; the popup comes to show the error only
\* by a failed outcome applied while there is no snapshot, and while it
\* shows the error there is none.
C11_SnapshotPreferred ==
    /\ [](is_some(weather_data) => view_window = "weather")
    /\ [](view_window = "error" => (weather_data = None /\ is_some(error)))
    /\ [][/\ is_some(weather_data) => view_window' = "weather"
          /\ (view_window' = "error" /\ view_window # "error") =>
                /\ last'.kind = "WeatherFetched" /\ ~last'.result[1].ok
                /\ weather_data = None]_vars

\* a failure has been applied after a success: the popup shows the snapshot
\* although the error is set
C11_Witness ==
    /\ is_some(weather_data) /\ is_some(error) /\ ~loading
    /\ view_window = "weather"

\* the task whose outcome the step applies
Completed == inflight[last'.older + 1]

\* C12: a coordinate edit during a fetch is recorded in the configuration
\* and leaves the tasks in flight, loading, the snapshot and the error as
\* they were; the outcome that arrives later is the one of the coordinates
\* the task was made with, and applying it ends that task and makes no other.
C12_EditDuringFetch ==
    [][/\ (last'.kind = "UpdateLatitude" /\ InFlightCount > 0) =>
            /\ \E lat \in LatInputs : config' = [config EXCEPT !.latitude = Some(lat)]
            /\ UNCHANGED <<inflight, hung, loading, weather_data, error>>
       /\ (last'.kind = "UpdateLongitude" /\ InFlightCount > 0) =>
            /\ \E lon \in LonInputs : config' = [config EXCEPT !.longitude = Some(lon)]
            /\ UNCHANGED <<inflight, hung, loading, weather_data, error>>
       /\ last'.kind = "WeatherFetched" =>
            /\ inflight' = Remove(inflight, last'.older + 1)
            /\ UNCHANGED <<config, hung>>
            /\ last'.result[1].ok =>
                  last'.result[1].val.location = <<Completed.lat, Completed.lon>>]_vars

\* the outcome of a fetch made with other coordinates than the configured
\* ones has been applied, and no fetch with the configured ones is out
C12_Witness ==
    /\ last.kind = "WeatherFetched" /\ last.result[1].ok
    /\ CoordsParse(config)
    /\ weather_data[1].location # <<Lat(config), Lon(config)>>
    /\ InFlightCount = 0 /\ ~loading

\* C13: whichever task in flight ends, the oldest or a later one, its
\* outcome is applied when it ends: the snapshot and last_error are those of
\* the task that ended last, not of the task made last.
C13_CompletionOrder ==
    [][last'.kind = "WeatherFetched" =>
         /\ last'.older + 1 \in DOMAIN inflight
         /\ inflight' = Remove(inflight, last'.older + 1)
         /\ \E resp \in Responses :
               last'.result[1] = fetch_weather_data(Completed.lat, Completed.lon, resp)
         /\ IF last'.result[1].ok
              THEN weather_data' = Some(last'.result[1].val) /\ error' = None
              ELSE error' = Some(last'.result[1].err) /\ weather_data' = weather_data]_vars

\* the outcome of a task has been applied while a task made before it, with
\* other coordinates, is still in flight
C13_Witness ==
    /\ last.kind = "WeatherFetched" /\ last.older > 0 /\ last.result[1].ok
    /\ weather_data = Some(last.result[1].val)
    /\ inflight # <<>>
    /\ weather_data[1].location # <<inflight[1].lat, inflight[1].lon>>

\* the requests made by the step: those that are out after it and were not
\* out before it
RequestsMade ==
    InFlightCount' - InFlightCount + (IF last'.kind = "WeatherFetched" THEN 1 ELSE 0)

\* C14: a request is made by startup with coordinates that parse and by
\* every FetchWeather handled with coordinates that parse, one each, and by
\* nothing else; a failed outcome ends its task and makes none; the
\* FetchWeather that follows a failure makes a task for the configured
\* coordinates, sets loading and clears the error.
C14_NoRetry ==
    /\ [](last.kind = "Init" =>
            InFlightCount = (IF CoordsParse(config) THEN 1 ELSE 0))
    /\ [][/\ RequestsMade = (IF BeginsFetch THEN 1 ELSE 0)
          /\ (last'.kind = "WeatherFetched" /\ ~last'.result[1].ok) =>
                (Len(inflight') = Len(inflight) - 1 /\ hung' = hung)
          /\ (last.kind = "WeatherFetched" /\ ~last.result[1].ok /\ BeginsFetch) =>
                /\ inflight' = Append(inflight, Task(Lat(config), Lon(config)))
                /\ loading' = TRUE /\ error' = None]_vars

\* a failure has been applied with coordinates that parse, and no request
\* is out
C14_Witness ==
    /\ last.kind = "WeatherFetched" /\ ~last.result[1].ok
    /\ CoordsParse(config)
    /\ InFlightCount = 0 /\ error = Some(last.result[1].err)

\* a call of get_weather_data has returned
Returned == last.kind = "get_weather_data" /\ is_some(last.result)

IsSuccess(status) == status >= 200 /\ status <= 299

\* C15: a response with a success status and a body that deserializes to an
\* empty time series gives the failure "No weather data available", which
\* is not the failure of a body that does not deserialize, and never a
\* snapshot; a response with another status never gives a snapshot.
C15_EmptyAndStatusFail ==
    Returned =>
        LET resp == last.resp
            result == last.result[1]
        IN  /\ (resp.kind = "http" /\ IsSuccess(resp.status) /\ resp.decodes
                  /\ resp.timeseries = <<>>) =>
                    /\ ~result.ok
                    /\ result.err = "No weather data available"
                    /\ result.err #
                         get_weather_data(last.lat, last.lon,
                                          [resp EXCEPT !.decodes = FALSE]).err
            /\ (resp.kind = "http" /\ ~IsSuccess(resp.status)) => ~result.ok

\* get_weather_data has returned for an empty time series
C15_Witness ==
    /\ Returned
    /\ last.resp.kind = "http" /\ IsSuccess(last.resp.status) /\ last.resp.decodes
    /\ last.resp.timeseries = <<>>
    /\ ~last.result[1].ok

\* the first entry of the time series of the response
FirstEntry == last.resp.timeseries[1]

\* get_weather_data has returned a snapshot
Normalized == Returned /\ last.result[1].ok

\* C16: when the first entry has no next_1_hours the snapshot has the
\* description and icon of clear sky, "Clear sky" and "01d"; when it has
\* one, they are those of its symbol code.
C16_ClearSkyDefault ==
    Normalized =>
        LET snapshot == last.result[1].val
        IN  IF is_some(FirstEntry.next_1_hours)
              THEN /\ snapshot.description =
                        map_weather_code_to_description(FirstEntry.next_1_hours[1])
                   /\ snapshot.icon = map_weather_code_to_icon(FirstEntry.next_1_hours[1])
              ELSE /\ snapshot.description = "Clear sky"
                   /\ snapshot.icon = "01d"

\* a call of the two lookup functions has returned
LookedUp == last.kind = "map_weather_code" /\ is_some(last.result)

\* C17: the lookup of "clearsky_day" gives "Clear sky" and "01d", that of
\* "lightrain" gives "Light rain" and "10d"; a code with an arm in a
\* function gets a text of that function other than the description
\* default, a code without one gets "Unknown" resp. "01d"; and the
\* snapshot of an entry with a symbol code carries the two lookups of it.
C17_TablesApply ==
    /\ LookedUp =>
          LET code == last.code
              description == last.result[1].description
              icon == last.result[1].icon
          IN  /\ code = "clearsky_day" => (description = "Clear sky" /\ icon = "01d")
              /\ code = "lightrain" => (description = "Light rain" /\ icon = "10d")
              /\ code = "xyz_unknown" => (description = "Unknown" /\ icon = "01d")
              /\ code \in DescriptionCodes <=> description # "Unknown"
              /\ code \notin IconCodes => icon = "01d"
              /\ icon \in {"01d", "01n", "02d", "02n", "03d", "10d", "13d", "50d",
                            "11d", "09d"}
    /\ (Normalized /\ is_some(FirstEntry.next_1_hours)) =>
          LET code == FirstEntry.next_1_hours[1]
              snapshot == last.result[1].val
          IN  /\ code = "lightrain" =>
                    (snapshot.description = "Light rain" /\ snapshot.icon = "10d")
              /\ code \notin DescriptionCodes => snapshot.description = "Unknown"
              /\ code \notin IconCodes => snapshot.icon = "01d"

\* the lookup of a code that has an arm in the description function and none
\* in the icon function has returned
C17_Witness ==
    /\ LookedUp
    /\ last.code \in DescriptionCodes \ IconCodes
    /\ last.result[1].description # "Unknown" /\ last.result[1].icon = "01d"

\* C18: the humidity of every snapshot is within 0..100.
C18_HumidityRange ==
    Normalized =>
        (last.result[1].val.humidity >= 0 /\ last.result[1].val.humidity <= 100)

\* C19: a response with a success status and a body that deserializes to a
\* time series that is not empty gives a snapshot whatever fields of the
\* first entry are absent: temperature and humidity are those of the first
\* entry, 0.0 and 0 when absent, feels_like is the temperature, and the
\* entries after the first change nothing.
C19_DefaultsApply ==
    (Returned /\ last.resp.kind = "http" /\ IsSuccess(last.resp.status)
       /\ last.resp.decodes /\ last.resp.timeseries # <<>>) =>
        LET result == last.result[1]
            snapshot == result.val
        IN  /\ result.ok
            /\ snapshot.temperature = IF is_some(FirstEntry.air_temperature)
                                        THEN FirstEntry.air_temperature[1] ELSE 0
            /\ ~is_some(FirstEntry.relative_humidity) => snapshot.humidity = 0
            /\ is_some(FirstEntry.relative_humidity) =>
                  snapshot.humidity = F64AsU8(FirstEntry.relative_humidity[1])
            /\ snapshot.feels_like = snapshot.temperature
            /\ result = get_weather_data(last.lat, last.lon,
                            [last.resp EXCEPT !.timeseries = <<FirstEntry>>])

\* get_weather_data has returned a snapshot for a time series of several
\* entries whose first has no temperature, no humidity and no next_1_hours
C19_Witness ==
    /\ Normalized
    /\ Len(last.resp.timeseries) > 1
    /\ FirstEntry = Entry(None, None, None)
    /\ last.resp.timeseries[Len(last.resp.timeseries)] # FirstEntry
    /\ last.result[1].val.temperature = 0 /\ last.result[1].val.humidity = 0

\* C20: no step removes the snapshot, and the only step that changes it is
\* a successful outcome, which stores the outcome's snapshot.
C20_SnapshotKept ==
    [][/\ is_some(weather_data) => is_some(weather_data')
       /\ weather_data' # weather_data =>
            /\ last'.kind = "WeatherFetched" /\ last'.result[1].ok
            /\ weather_data' = Some(last'.result[1].val)]_vars

\* after a success and a later failure the configuration has been replaced
\* by one without coordinates, and the snapshot is still there
C20_Witness ==
    /\ last.kind = "UpdateConfig" /\ config = ConfigDefault
    /\ is_some(weather_data) /\ is_some(error)

\* the messages that edit one field of the configuration
EditKinds ==
    {"UpdateCity", "UpdateLatitude", "UpdateLongitude", "ToggleAutoUpdate",
     "UpdateUnits", "UpdateInterval"}

\* the messages of the configuration and of the popup
FrameKinds ==
    EditKinds \cup {"UpdateConfig", "UpdateApiKey", "TogglePopup", "PopupClosed",
                    "SubscriptionChannel"}

\* C21: the configuration and popup messages leave the snapshot, loading,
\* last_error and the tasks in flight as they were; an edit message changes
\* no field of the configuration but its own, and not the popup;
\* UpdateConfig changes the configuration only, the popup messages the
\* popup only, UpdateApiKey and SubscriptionChannel nothing.
C21_Frame ==
    [][last'.kind \in FrameKinds =>
         /\ UNCHANGED <<weather_data, loading, error, inflight, hung>>
         /\ last'.kind \in EditKinds \cup {"UpdateConfig"} => popup' = popup
         /\ last'.kind \notin EditKinds \cup {"UpdateConfig"} => config' = config
         /\ last'.kind \in {"UpdateApiKey", "SubscriptionChannel"} => popup' = popup
         /\ last'.kind = "UpdateCity" =>
               (is_some(config'.city) /\ config' = [config EXCEPT !.city = config'.city])
         /\ last'.kind = "UpdateLatitude" =>
               /\ is_some(config'.latitude)
               /\ config' = [config EXCEPT !.latitude = config'.latitude]
         /\ last'.kind = "UpdateLongitude" =>
               /\ is_some(config'.longitude)
               /\ config' = [config EXCEPT !.longitude = config'.longitude]
         /\ last'.kind = "ToggleAutoUpdate" =>
               config' = [config EXCEPT !.auto_update = config'.auto_update]
         /\ last'.kind = "UpdateUnits" =>
               config' = [config EXCEPT !.units = config'.units]
         /\ last'.kind = "UpdateInterval" =>
               config' = [config EXCEPT !.update_interval = config'.update_interval]]_vars

\* the interval has been edited during a fetch, with a snapshot there
C21_Witness ==
    /\ last.kind = "UpdateInterval" /\ config.update_interval = HugeInterval
    /\ loading /\ InFlightCount > 0 /\ is_some(weather_data)

\* C22: the two lookup functions have arms for the same codes: the icon of
\* a code is the default of the icon function exactly when its description
\* is "Unknown", and a code whose description is neither "Unknown" nor
\* "Clear sky" does not get the icon "01d".
C22_SameCodes ==
    LookedUp =>
        /\ last.code \notin IconCodes <=> last.result[1].description = "Unknown"
        /\ last.result[1].description \notin {"Unknown", "Clear sky"} =>
              last.result[1].icon # "01d"

====
